---- MODULE Spec2Model ----
(***************************************************************************)
(* Model of src/blockchain.py: the Blockchain class (chain, pending       *)
(* transactions, proof of work, chain validation, peer consensus) and the *)
(* Flask handlers that drive it.                                           *)
(*                                                                         *)
(* Python lists are objects: new_block stores a REFERENCE to the pending   *)
(* list in the block (line 38) and then rebinds the attribute to a new     *)
(* list (line 44).  The model therefore keeps a heap `lists` of list       *)
(* objects; a block's 'transactions' field and self.current_transactions   *)
(* are list ids.                                                           *)
(*                                                                         *)
(* Two specifications:                                                     *)
(*   Spec      every method call / request runs to completion (one action  *)
(*             per call);                                                  *)
(*   SpecConc  the Flask handlers run as threads (app.run is threaded) and *)
(*             interleave between their accesses to the shared object.     *)
(***************************************************************************)
EXTENDS Integers, Sequences, FiniteSets, Bags, TLC

VARIABLES
    chain,                  \* self.chain: sequence of blocks (transactions = list id)
    current_transactions,   \* self.current_transactions: id of the pending list
    lists,                  \* heap of list objects: id -> sequence of transactions
    nodes,                  \* self.nodes: set of netloc strings
    clock,                  \* time(): seconds since epoch, monotone
    ret,                    \* outcome of the last completed call
    arg,                    \* history: what that call was given
    pc,                     \* SpecConc: per-thread position in its handler
    loc,                    \* SpecConc: per-thread local variables
    served,                 \* SpecConc: number of requests accepted so far
    queued,                 \* history: bag of the transactions appended to the
                            \*   pending list, kept until the chain is replaced
    replaced                \* history: resolve_conflicts has replaced the chain

vars == <<chain, current_transactions, lists, nodes, clock, ret, arg, pc, loc,
          served, queued, replaced>>

----------------------------------------------------------------------------
(* Bounds of the model *)

MaxChain == 3        \* blocks the local chain may grow to by minting
MaxAccepted == 3     \* SpecLedger: new_transaction is called while fewer were accepted
MaxPending == 1      \* Spec: a transaction is posted while fewer are pending
MaxRequests == 4     \* SpecConc: requests served in all
MaxRegistered == 3   \* SpecNodes: register_node is called at most that often
MaxClock == 1        \* largest value time() takes
NumThreads == 2      \* request threads of SpecConc

(* proof_of_work is searched up to this candidate (the code's loop is unbounded) *)
SearchCap == 100

----------------------------------------------------------------------------
(* Values *)

Last(s) == s[Len(s)]

Min(a, b) == IF a < b THEN a ELSE b

\* None / a falsy previous_hash argument (line 27 default, line 40 `or`)
None == <<>>

\* node_identifier, line 189
node_identifier == "node"

Tx(sender, recipient, amount) ==
    [sender |-> sender, recipient |-> recipient, amount |-> amount]

\* the reward transaction of mine(), line 203
RewardTx == Tx("0", node_identifier, 1)

Senders == {"A"}
Recipients == {"B"}
Amounts == {5, 6}

\* request bodies of POST /transactions/new
\* the transaction posted to /transactions/new in Spec
PostInputs == {Tx("A", "B", 5)}

TxInputs == {Tx(s, r, a) : s \in Senders, r \in Recipients, a \in Amounts}

----------------------------------------------------------------------------
(* hash, lines 74-84.  json.dumps(block, sort_keys=True) serialises every   *)
(* field of the block, keys in sorted order (index, previous_hash, proof,   *)
(* timestamp, transactions), the transaction list by its current content.   *)
(* SHA-256 is modelled as injective on that text: the digest of a block is  *)
(* the tuple of its serialised fields.  The argument is a block whose       *)
(* 'transactions' is the list content (see Wire).                           *)

hash(block) ==
    <<block.index, block.previous_hash, block.proof, block.timestamp,
      block.transactions>>

\* previous_hash=1 of the first block, line 22
GenesisPreviousHash == <<1>>

\* proof=100 of the first block, line 22
GenesisProof == 100

(* valid_proof, lines 100-111.  guess = f'{last_proof}{proof}': the two     *)
(* decimal texts concatenated without separator; for last_proof >= 1 the    *)
(* text is the decimal text of last_proof * 10^digits(proof) + proof.       *)

Digits(n) == IF n < 10 THEN 1 ELSE IF n < 100 THEN 2 ELSE IF n < 1000 THEN 3 ELSE 4

Pow10(k) == IF k = 1 THEN 10 ELSE IF k = 2 THEN 100 ELSE IF k = 3 THEN 1000 ELSE 10000

Guess(last_proof, proof) == last_proof * Pow10(Digits(proof)) + proof

(* The texts whose SHA-256 hex digest starts with '0', among all guesses    *)
(* with last_proof in SearchInputs and proof in 0..100 (computed with       *)
(* hashlib).  The code asks for the prefix '0000' (line 111); the model     *)
(* keeps the real digests and shortens the prefix to one character so that  *)
(* proofs stay small.  Every proof of the ledger lies in ProofDomain, which *)
(* proof_of_work maps into itself.                                          *)
ProofDomain == {1, 9, 10, 11, 16, 25, 26, 31, 33, 48, 62, 100}

\* the previous proofs proof_of_work is called with: those of the ledger, and
\* some whose search ends at once (29, 50) or late (8)
SearchInputs == ProofDomain \cup {8, 29, 50}

ZeroPrefixGuesses ==
    {109, 125, 146, 149, 152, 156, 178, 290, 331, 334, 500, 860, 871, 886,
     962, 975, 1038, 1039, 1040, 1047, 1049, 1055, 1063, 1064, 1068, 1085,
     1086, 1110, 1111, 1146, 1150, 1154, 1172, 1173, 1181, 1631, 1665,
     1680, 2511, 2518, 2519, 2530, 2537, 2555, 2557, 2566, 2633, 2650,
     2665, 2671, 2913, 2921, 2931, 2942, 2950, 2966, 2973, 2983, 2984,
     2988, 2993, 2999, 3148, 3157, 3324, 3335, 3340, 3363, 3366, 3376,
     4826, 4843, 4852, 4858, 4871, 4886, 5011, 5029, 5059, 5065, 5087,
     5089, 6233, 6276, 6283, 6293, 10016, 10038, 10039, 10069}

valid_proof(last_proof, proof) == Guess(last_proof, proof) \in ZeroPrefixGuesses

(* proof_of_work, lines 86-98: proof = 0; while not valid: proof += 1.      *)
(* NoProof stands for a search that has not ended by SearchCap.             *)
NoProof == 0 - 1

RECURSIVE SearchFrom(_, _)
SearchFrom(last_proof, proof) ==
    IF valid_proof(last_proof, proof) THEN proof
    ELSE IF proof >= SearchCap THEN NoProof
    ELSE SearchFrom(last_proof, proof + 1)

proof_of_work_FromOne(last_proof) == SearchFrom(last_proof, 1)

proof_of_work(last_proof) == SearchFrom(last_proof, 0)

(* valid_chain, lines 123-150, on a fetched (JSON) chain: blocks carry      *)
(* their transaction lists by value.  chain[0] at line 130 raises           *)
(* IndexError on an empty chain: ValidChainRaises.                          *)

ValidChainRaises(c) == Len(c) = 0

RECURSIVE ValidFrom(_, _)
ValidFrom(c, current_index) ==
    IF ~(current_index < Len(c)) THEN TRUE
    ELSE LET last == c[current_index]       \* the code's indices are 0-based
             block == c[current_index + 1]
         IN IF block.previous_hash # hash(last) THEN FALSE
            ELSE IF ~valid_proof(last.proof, block.proof) THEN FALSE
            ELSE ValidFrom(c, current_index + 1)

valid_chain_FromThird(c) == ValidFrom(c, 2)

valid_chain(c) == ValidFrom(c, 1)

----------------------------------------------------------------------------
(* The heap.  List ids are object identities: they carry no meaning, so     *)
(* every state is kept with its lists numbered in the order the chain, the  *)
(* pending list and the threads' locals refer to them; a list nothing       *)
(* refers to is garbage and is dropped.                                     *)

\* a block with its transaction list by value, on heap ls: what jsonify
\* sends (lines 235-241) and what hash() serialises
WireIn(ls, block) == [block EXCEPT !.transactions = ls[block.transactions]]

Wire(block) == WireIn(lists, block)

WireChain(c) == [i \in 1..Len(c) |-> Wire(c[i])]

\* self.chain[-1], lines 66-72
last_block == Last(chain)

NoBlock ==
    [index |-> 0, timestamp |-> 0, transactions |-> 0, proof |-> 0,
     previous_hash |-> None]

Threads == 1..NumThreads

\* the list references held by the threads' locals, thread after thread
ThreadRefs(l) ==
    [k \in 1..(3 * NumThreads) |->
        LET t == ((k - 1) \div 3) + 1
            f == (k - 1) % 3
        IN IF f = 0 THEN l[t].ref
           ELSE IF f = 1 THEN l[t].last_block.transactions
           ELSE l[t].block.transactions]

\* every list reference of a state, in a fixed order
RefSeq(c, pool, l) == [i \in 1..Len(c) |-> c[i].transactions] \o <<pool>> \o ThreadRefs(l)

\* the number of a list: its rank among the lists referred to
Rank(refs, id) ==
    LET first == CHOOSE k \in 1..Len(refs) :
                    refs[k] = id /\ \A j \in 1..(k - 1) : refs[j] # id
    IN Cardinality({refs[j] : j \in 1..(first - 1)} \ {0}) + 1

Rename(refs, id) == IF id = 0 THEN 0 ELSE Rank(refs, id)

\* the next state's objects: chain c, pending list pool, heap ls, locals l
Store(c, pool, ls, l) ==
    LET refs == RefSeq(c, pool, l)
        live == {refs[k] : k \in 1..Len(refs)} \ {0}
        ren(b) == [b EXCEPT !.transactions = Rename(refs, @)]
    IN /\ chain' = [i \in 1..Len(c) |-> ren(c[i])]
       /\ current_transactions' = Rename(refs, pool)
       /\ lists' = [k \in 1..Cardinality(live) |->
                       ls[CHOOSE id \in live : Rank(refs, id) = k]]
       /\ loc' = [t \in Threads |->
                     [l[t] EXCEPT !.ref = Rename(refs, @),
                                  !.last_block = ren(@),
                                  !.block = ren(@)]]

\* the id of a newly created list object
FreshId(ls) == Len(ls) + 1

----------------------------------------------------------------------------
(* Locals of a handler thread (SpecConc); seen is history: the pending      *)
(* transactions when the thread's mine request began                        *)

IdleLocals ==
    [ref |-> 0, tx |-> RewardTx, last_block |-> NoBlock, proof |-> 0,
     previous_hash |-> None, block |-> NoBlock, max_length |-> 0,
     new_chain |-> <<>>, todo |-> {}, size |-> 0, seen |-> <<>>]

\* what the last call that returns a value returned (raised: it ended in an
\* exception; register_node returns None and leaves no trace here);
\* a returned block is recorded as it is serialised at that moment
Ret(op, index, block, flag, raised) ==
    [op |-> op, index |-> index, block |-> block, replaced |-> flag,
     raised |-> raised]

----------------------------------------------------------------------------
(* __init__, lines 17-25: chain = [], current_transactions = [],            *)
(* new_block(previous_hash=1, proof=100), nodes = set()                     *)

Genesis ==
    [index |-> 1, timestamp |-> 0, transactions |-> 1, proof |-> GenesisProof,
     previous_hash |-> GenesisPreviousHash]

Init ==
    /\ chain = <<Genesis>>
    /\ lists = <<(<<>>), (<<>>)>>
    /\ current_transactions = 2
    /\ nodes = {}
    /\ clock = 0
    /\ ret = Ret("init", 0, NoBlock, FALSE, FALSE)
    /\ arg = None
    /\ pc = [t \in Threads |-> "idle"]
    /\ served = 0
    /\ loc = [t \in Threads |-> IdleLocals]
    /\ queued = EmptyBag
    /\ replaced = FALSE

----------------------------------------------------------------------------
(* new_block, lines 27-47 *)

\* line 36
BlockIndex(c) == Len(c) + 1

\* (mutation of line 40: the given previous_hash is ignored)
BlockPreviousHash_AlwaysDigest(previous_hash, c, ls) == hash(WireIn(ls, Last(c)))

\* line 40: previous_hash or self.hash(self.chain[-1])
BlockPreviousHash(previous_hash, c, ls) ==
    IF previous_hash # None THEN previous_hash ELSE hash(WireIn(ls, Last(c)))

\* lines 35-41: the block refers to the pending list object itself
BuildBlock(c, ls, pool, ts, proof, previous_hash) ==
    [index |-> BlockIndex(c),
     timestamp |-> ts,
     transactions |-> pool,
     proof |-> proof,
     previous_hash |-> BlockPreviousHash(previous_hash, c, ls)]

\* (mutation of line 44: the pending list is not replaced)
ClearedPool_Kept(ls, pool) == pool

\* line 44: self.current_transactions = [], a new list object
ClearedPool(ls, pool) == FreshId(ls)

\* the heap once the list `pool` exists
WithList(ls, pool) == IF pool \in DOMAIN ls THEN ls ELSE Append(ls, <<>>)

\* line 46
AppendBlock(c, block) == Append(c, block)

\* time(), line 37: a later call reads a later time (up to MaxClock)
Later(ts) == Min(ts + 1, MaxClock)

\* the whole call, on heap ls, at time ts; op names the caller
new_block(op, ls, ts, proof, previous_hash) ==
    LET block == BuildBlock(chain, ls, current_transactions, ts, proof, previous_hash)
        pool == ClearedPool(ls, current_transactions)
    IN /\ Store(AppendBlock(chain, block), pool, WithList(ls, pool), loc)
       /\ clock' = Later(ts)
       /\ ret' = Ret(op, block.index, WireIn(ls, block), FALSE, FALSE)

\* what a caller of new_block passes: the proof searched for, with no
\* previous_hash or with the digest of the last block; or some other proof
\* and string
BlockInput(proof, previous_hash) == [proof |-> proof, previous_hash |-> previous_hash]

BlockInputs ==
    {BlockInput(proof_of_work(last_block.proof), None),
     BlockInput(proof_of_work(last_block.proof), hash(Wire(last_block))),
     BlockInput(9, <<0>>)}

NewBlock(proof, previous_hash) ==
    /\ Len(chain) < MaxChain
    /\ proof # NoProof
    /\ new_block("new_block", lists, clock, proof, previous_hash)
    /\ arg' = BlockInput(proof, previous_hash)
    /\ UNCHANGED <<nodes, pc, served, queued, replaced>>

----------------------------------------------------------------------------
(* new_transaction, lines 49-64 *)

\* line 58: append to the list object
AppendTx_Front(ls, ref, tx) == [ls EXCEPT ![ref] = <<tx>> \o @]

AppendTx(ls, ref, tx) == [ls EXCEPT ![ref] = Append(@, tx)]

\* line 64
NextIndex(c) == Last(c).index + 1

\* the number of pending transactions
Pending == Len(lists[current_transactions])

\* history of the accepted transactions
Queue(tx) == IF replaced THEN queued ELSE queued (+) SetToBag({tx})

NewTransaction(tx) ==
    /\ lists' = AppendTx(lists, current_transactions, tx)
    /\ ret' = Ret("new_transaction", NextIndex(chain), NoBlock, FALSE, FALSE)
    /\ arg' = tx
    /\ queued' = Queue(tx)
    /\ UNCHANGED <<chain, current_transactions, nodes, clock, pc, loc, served, replaced>>

----------------------------------------------------------------------------
(* mine, lines 195-216 *)

Mine ==
    LET last == last_block
        proof == proof_of_work(last.proof)
        ls == AppendTx(lists, current_transactions, RewardTx)
        previous_hash == hash(WireIn(ls, last))
    IN /\ Len(chain) < MaxChain
       /\ proof # NoProof
       /\ new_block("mine", ls, clock, proof, previous_hash)
       /\ arg' = None
       /\ queued' = Queue(RewardTx)
       /\ UNCHANGED <<nodes, pc, served, replaced>>

----------------------------------------------------------------------------
(* register_node, lines 113-121 *)

\* addresses posted to /node/register: scheme, then what follows '//' up to
\* the next '/', then the path
Address(scheme, netloc, path) == [scheme |-> scheme, netloc |-> netloc, path |-> path]

Addresses ==
    {Address("http", "h1:5000", ""), Address("http", "h1:5000", "/chain"),
     Address("http", "h2:5000", "")}

\* urlparse(address).netloc: empty when the address has no '//'
urlparse_netloc(address) == IF address.scheme = "" THEN "" ELSE address.netloc

register_node_Replace(address) == nodes' = {urlparse_netloc(address)}

\* line 121
register_node(address) == nodes' = nodes \cup {urlparse_netloc(address)}

RegisterNode(address) ==
    /\ register_node(address)
    /\ UNCHANGED <<chain, current_transactions, lists, clock, ret, arg, pc, loc, served, queued, replaced>>

----------------------------------------------------------------------------
(* Peers: what GET http://{node}/chain may answer (line 166).  A peer is    *)
(* another process; its answer is an input.  'length' and 'chain' are two   *)
(* separate fields of the JSON body (lines 169-170).                        *)

PeerGenesis ==
    [index |-> 1, timestamp |-> 0, transactions |-> <<>>, proof |-> GenesisProof,
     previous_hash |-> GenesisPreviousHash]

\* the block a node running this code mines on top of prev
PeerBlock(prev, txs) ==
    [index |-> prev.index + 1, timestamp |-> 0,
     transactions |-> txs \o <<Tx("0", "peer", 1)>>,
     proof |-> proof_of_work(prev.proof), previous_hash |-> hash(prev)]

Peer2 == PeerBlock(PeerGenesis, <<>>)
Peer2Fork == PeerBlock(PeerGenesis, <<Tx("A", "B", 6)>>)
Peer3 == PeerBlock(Peer2, <<Tx("A", "B", 5)>>)
Peer2BadLink == [Peer2 EXCEPT !.previous_hash = <<0>>]
Peer2BadProof == [Peer2 EXCEPT !.proof = 9]
Peer2BadIndex == [Peer2 EXCEPT !.index = 5]

PeerChains ==
    {<<>>,
     <<PeerGenesis>>,
     <<PeerGenesis, Peer2>>,
     <<PeerGenesis, Peer2Fork>>,
     <<PeerGenesis, Peer2, Peer3>>,
     <<PeerGenesis, Peer2BadLink, PeerBlock(Peer2BadLink, <<>>)>>,
     <<PeerGenesis, Peer2BadProof>>,
     <<PeerGenesis, Peer2BadIndex>>}

\* a length greater than that of every chain of PeerChains
InflatedLength == Len(<<PeerGenesis, Peer2, Peer3>>) + 1

\* kind "error": requests.get raises (connection refused, invalid URL);
\* otherwise a response with a status code and a JSON body
Response(kind, status, length, c) ==
    [kind |-> kind, status_code |-> status, length |-> length, chain |-> c]

Unreachable == Response("error", 0, 0, <<>>)

\* a body reports the length of its chain, or another one
Responses ==
    {Unreachable, Response("ok", 500, 0, <<>>),
     Response("ok", 200, InflatedLength, <<>>),
     Response("ok", 200, InflatedLength, <<PeerGenesis>>)}
      \cup {Response("ok", 200, Len(c), c) : c \in PeerChains}

\* a node registered from an address without '//' has the empty netloc:
\* http:///chain is no URL and requests.get raises
ResponsesOf(node) == IF node = "" THEN {Unreachable} ELSE Responses

----------------------------------------------------------------------------
(* resolve_conflicts, lines 152-182 *)

\* the locals of the scan; new_chain = <<>> is None; raised: an exception
\* left the loop
Scan(max_length, new_chain, raised) ==
    [max_length |-> max_length, new_chain |-> new_chain, raised |-> raised]

\* line 173: length > max_length
Longer(length, max_length) == length > max_length

\* one iteration of the loop, lines 165-175
ScanStep(st, response) ==
    IF st.raised THEN st
    ELSE IF response.kind = "error" THEN Scan(st.max_length, st.new_chain, TRUE)
    ELSE IF response.status_code # 200 THEN st
    ELSE IF ~Longer(response.length, st.max_length) THEN st
    ELSE IF ValidChainRaises(response.chain) THEN Scan(st.max_length, st.new_chain, TRUE)
    ELSE IF valid_chain(response.chain) THEN Scan(response.length, response.chain, FALSE)
    ELSE st

\* the loop over the nodes in iteration order
RECURSIVE ScanAll(_, _, _)
ScanAll(st, order, resp) ==
    IF order = <<>> THEN st
    ELSE ScanAll(ScanStep(st, resp[Head(order)]), Tail(order), resp)

\* the orders a set can be iterated in
Orders(S) == {o \in [1..Cardinality(S) -> S] : \A i, j \in DOMAIN o : i # j => o[i] # o[j]}

\* a parsed JSON chain as objects of this process: every block gets a new list
Adopt(ls, new_chain) ==
    [i \in 1..Len(new_chain) |-> [new_chain[i] EXCEPT !.transactions = Len(ls) + i]]

AdoptHeap(ls, new_chain) ==
    ls \o [i \in 1..Len(new_chain) |-> new_chain[i].transactions]

Replace_Unchecked(new_chain, l) ==
    /\ Store(Adopt(lists, new_chain), current_transactions,
             AdoptHeap(lists, new_chain), l)
    /\ replaced' = TRUE
    /\ queued' = EmptyBag

Replace_ClearPool(new_chain, l) ==
    IF new_chain # <<>>
    THEN /\ Store(Adopt(lists, new_chain), Len(lists) + Len(new_chain) + 1,
                  Append(AdoptHeap(lists, new_chain), <<>>), l)
         /\ replaced' = TRUE
         /\ queued' = EmptyBag
    ELSE /\ UNCHANGED <<chain, current_transactions, lists, replaced, queued>>
         /\ loc' = l

\* lines 177-182: if new_chain: self.chain = new_chain
Replace(new_chain, l) ==
    IF new_chain # <<>>
    THEN /\ Store(Adopt(lists, new_chain), current_transactions,
                  AdoptHeap(lists, new_chain), l)
         /\ replaced' = TRUE
         /\ queued' = EmptyBag
    ELSE /\ UNCHANGED <<chain, current_transactions, lists, replaced, queued>>
         /\ loc' = l

\* history of a resolution: did a fetch fail, did a body carry an empty
\* chain, and the greatest number of blocks of a chain that was received
\* with status 200, has more blocks than the local chain and is valid
\* (0: there is none)
Offered(resp) ==
    {resp[n].chain : n \in {m \in DOMAIN resp : resp[m].kind = "ok" /\ resp[m].status_code = 200}}

Qualifying(resp) ==
    {c \in Offered(resp) : Len(c) > Len(chain) /\ valid_chain(c)}

Best(resp) ==
    IF Qualifying(resp) = {} THEN 0
    ELSE CHOOSE k \in {Len(c) : c \in Qualifying(resp)} :
            \A c \in Qualifying(resp) : Len(c) <= k

Asked(resp) ==
    [error |-> \E n \in DOMAIN resp : resp[n].kind = "error",
     empty |-> <<>> \in Offered(resp),
     best |-> Best(resp)]

ResolveConflicts(order, resp) ==
    LET st == ScanAll(Scan(Len(chain), <<>>, FALSE), order, resp)
    IN /\ arg' = Asked(resp)
       /\ IF st.raised
          THEN /\ UNCHANGED <<chain, current_transactions, lists, loc, replaced, queued>>
               /\ ret' = Ret("resolve_conflicts", 0, NoBlock, FALSE, TRUE)
          ELSE /\ Replace(st.new_chain, loc)
               /\ ret' = Ret("resolve_conflicts", 0, NoBlock, st.new_chain # <<>>, FALSE)
       /\ UNCHANGED <<nodes, clock, pc, served>>

----------------------------------------------------------------------------
(* SpecLedger: the methods new_transaction and new_block called one at a    *)
(* time, as a program using the class calls them                            *)

NextLedger ==
    \/ \E tx \in TxInputs : BagCardinality(queued) < MaxAccepted /\ NewTransaction(tx)
    \/ \E in \in BlockInputs : NewBlock(in.proof, in.previous_hash)

SpecLedger == Init /\ [][NextLedger]_vars

----------------------------------------------------------------------------
(* Spec: the requests of the HTTP interface, handled one at a time, each to *)
(* completion                                                               *)

Next ==
    \/ \E tx \in PostInputs : Pending < MaxPending /\ NewTransaction(tx)
    \/ Mine
    \/ \E address \in Addresses : RegisterNode(address)
    \/ \E order \in Orders(nodes), resp \in [nodes -> Responses] :
          /\ \A n \in nodes : resp[n] \in ResponsesOf(n)
          /\ ResolveConflicts(order, resp)

Spec == Init /\ [][Next]_vars

----------------------------------------------------------------------------
(* SpecConc: the handlers as threads.  app.run serves every request on its  *)
(* own thread and nothing in the code locks; a thread can be suspended      *)
(* between any two bytecodes, so each step below is one access to the       *)
(* shared Blockchain object together with the local computation around it.  *)
(* The responses are not recorded (ret is left alone).                      *)

\* a request is accepted and given to thread t
Accept(t) ==
    /\ pc[t] = "idle"
    /\ served < MaxRequests
    /\ served' = served + 1

Set(t, l, pos) ==
    /\ pc' = [pc EXCEPT ![t] = pos]
    /\ loc' = [loc EXCEPT ![t] = l]

\* POST /transactions/new, lines 219-232; line 58 first loads the attribute
\* self.current_transactions ...
StartTransaction(t, tx) ==
    /\ Accept(t)
    /\ Set(t, [loc[t] EXCEPT !.ref = current_transactions, !.tx = tx], "tx_append")
    /\ UNCHANGED <<chain, current_transactions, lists, nodes, clock, ret, arg, queued, replaced>>

\* ... and then calls append on the list it loaded
TxAppend(t) ==
    /\ pc[t] = "tx_append"
    /\ Store(chain, current_transactions, AppendTx(lists, loc[t].ref, loc[t].tx),
             [loc EXCEPT ![t].ref = 0])
    /\ pc' = [pc EXCEPT ![t] = "tx_return"]
    /\ queued' = Queue(loc[t].tx)
    /\ UNCHANGED <<nodes, clock, ret, arg, served, replaced>>

\* line 64 and the response
TxReturn(t) ==
    /\ pc[t] = "tx_return"
    /\ Set(t, IdleLocals, "idle")
    /\ UNCHANGED <<chain, current_transactions, lists, nodes, clock, ret, arg, served, queued, replaced>>

\* GET /mine, lines 198-200: read the last block, search the proof
StartMine(t) ==
    /\ Accept(t)
    /\ Len(chain) < MaxChain
    /\ proof_of_work(last_block.proof) # NoProof
    /\ Set(t, [loc[t] EXCEPT !.last_block = last_block,
                             !.proof = proof_of_work(last_block.proof),
                             !.seen = lists[current_transactions]], "m_reward")
    /\ UNCHANGED <<chain, current_transactions, lists, nodes, clock, ret, arg, queued, replaced>>

\* line 203: new_transaction loads the attribute, line 58 ...
MineLoad(t) ==
    /\ pc[t] = "m_reward"
    /\ Set(t, [loc[t] EXCEPT !.ref = current_transactions, !.tx = RewardTx], "m_append")
    /\ UNCHANGED <<chain, current_transactions, lists, nodes, clock, ret, arg, served, queued, replaced>>

\* ... and appends the reward
MineAppend(t) ==
    /\ pc[t] = "m_append"
    /\ Store(chain, current_transactions, AppendTx(lists, loc[t].ref, loc[t].tx),
             [loc EXCEPT ![t].ref = 0])
    /\ pc' = [pc EXCEPT ![t] = "m_hash"]
    /\ queued' = Queue(loc[t].tx)
    /\ UNCHANGED <<nodes, clock, ret, arg, served, replaced>>

\* line 206: the digest of the block read at line 198, as it is now
MineHash(t) ==
    /\ pc[t] = "m_hash"
    /\ Set(t, [loc[t] EXCEPT !.previous_hash = hash(Wire(loc[t].last_block))], "nb_build")
    /\ UNCHANGED <<chain, current_transactions, lists, nodes, clock, ret, arg, served, queued, replaced>>

\* new_block, lines 35-41
NbBuild(t) ==
    /\ pc[t] = "nb_build"
    /\ Store(chain, current_transactions, lists,
             [loc EXCEPT ![t].block =
                 BuildBlock(chain, lists, current_transactions, clock,
                            loc[t].proof, loc[t].previous_hash)])
    /\ pc' = [pc EXCEPT ![t] = "nb_clear"]
    /\ clock' = Later(clock)
    /\ UNCHANGED <<nodes, ret, arg, served, queued, replaced>>

\* line 44
NbClear(t) ==
    /\ pc[t] = "nb_clear"
    /\ LET pool == ClearedPool(lists, current_transactions)
       IN Store(chain, pool, WithList(lists, pool), loc)
    /\ pc' = [pc EXCEPT ![t] = "nb_append"]
    /\ UNCHANGED <<nodes, clock, ret, arg, served, queued, replaced>>

\* lines 46-47 and the response, lines 209-216
NbAppend(t) ==
    /\ pc[t] = "nb_append"
    /\ Store(AppendBlock(chain, loc[t].block), current_transactions, lists,
             [loc EXCEPT ![t] = IdleLocals])
    /\ pc' = [pc EXCEPT ![t] = "idle"]
    /\ UNCHANGED <<nodes, clock, ret, arg, served, queued, replaced>>

\* GET /nodes/resolve, lines 158-165: the loop iterates the set self.nodes
\* itself; the iterator remembers the size of the set
StartResolve(t) ==
    /\ Accept(t)
    /\ Set(t, [loc[t] EXCEPT !.max_length = Len(chain), !.new_chain = <<>>,
                             !.todo = nodes, !.size = Cardinality(nodes)], "r_fetch")
    /\ UNCHANGED <<chain, current_transactions, lists, nodes, clock, ret, arg, queued, replaced>>

\* the exception that ends a resolution
Raise(t) ==
    /\ Set(t, IdleLocals, "idle")
    /\ UNCHANGED <<chain, current_transactions, lists, replaced, queued>>

\* the set iterator raises RuntimeError when the set has changed size
SetChanged(t) == Cardinality(nodes) # loc[t].size

\* one iteration, lines 165-175
Fetch(t, node, response) ==
    /\ pc[t] = "r_fetch"
    /\ node \in loc[t].todo
    /\ LET st == ScanStep(Scan(loc[t].max_length, loc[t].new_chain, SetChanged(t)), response)
       IN IF st.raised
          THEN Raise(t)
          ELSE /\ Set(t, [loc[t] EXCEPT !.max_length = st.max_length,
                                        !.new_chain = st.new_chain,
                                        !.todo = @ \ {node}], "r_fetch")
               /\ UNCHANGED <<chain, current_transactions, lists, replaced, queued>>
    /\ UNCHANGED <<nodes, clock, ret, arg, served>>

\* the end of the loop and lines 177-182
Commit(t) ==
    /\ pc[t] = "r_fetch"
    /\ loc[t].todo = {}
    /\ IF SetChanged(t)
       THEN Raise(t)
       ELSE /\ Replace(loc[t].new_chain, [loc EXCEPT ![t] = IdleLocals])
            /\ pc' = [pc EXCEPT ![t] = "idle"]
    /\ UNCHANGED <<nodes, clock, ret, arg, served>>

\* POST /node/register, lines 244-259, with one address
Register(address) ==
    /\ served < MaxRequests
    /\ served' = served + 1
    /\ register_node(address)
    /\ UNCHANGED <<chain, current_transactions, lists, clock, ret, arg, pc, loc, queued, replaced>>

NextConc ==
    \/ \E t \in Threads, tx \in TxInputs : StartTransaction(t, tx)
    \/ \E t \in Threads : TxAppend(t)
    \/ \E t \in Threads : TxReturn(t)
    \/ \E t \in Threads : StartMine(t)
    \/ \E t \in Threads : MineLoad(t)
    \/ \E t \in Threads : MineAppend(t)
    \/ \E t \in Threads : MineHash(t)
    \/ \E t \in Threads : NbBuild(t)
    \/ \E t \in Threads : NbClear(t)
    \/ \E t \in Threads : NbAppend(t)
    \/ \E t \in Threads : StartResolve(t)
    \/ \E t \in Threads, node \in nodes : \E response \in ResponsesOf(node) : Fetch(t, node, response)
    \/ \E t \in Threads : Commit(t)
    \/ \E address \in Addresses : Register(address)

SpecConc == Init /\ [][NextConc]_vars

----------------------------------------------------------------------------
(* SpecNodes: calls of register_node (lines 113-121) on a ledger with or    *)
(* without a pending transaction; arg keeps the addresses given so far      *)

\* an address as the docstring gives it, the same with a path, another
\* host, another port, and one without scheme
NodeAddresses ==
    Addresses \cup {Address("http", "h2:5001", ""), Address("", "h2:5000", "")}

InitNodes ==
    /\ chain = <<Genesis>>
    /\ \E pool \in {<<>>, <<Tx("A", "B", 5)>>} :
          /\ lists = <<(<<>>), pool>>
          /\ queued = IF pool = <<>> THEN EmptyBag ELSE SetToBag({pool[1]})
    /\ current_transactions = 2
    /\ nodes = {}
    /\ clock = 0
    /\ ret = Ret("init", 0, NoBlock, FALSE, FALSE)
    /\ arg = <<>>
    /\ pc = [t \in Threads |-> "idle"]
    /\ served = 0
    /\ loc = [t \in Threads |-> IdleLocals]
    /\ replaced = FALSE

RegisterCall(address) ==
    /\ Len(arg) < MaxRegistered
    /\ register_node(address)
    /\ arg' = Append(arg, address)
    /\ UNCHANGED <<chain, current_transactions, lists, clock, ret, pc, loc, served,
                   queued, replaced>>

NextNodes ==
    \/ \E address \in NodeAddresses : RegisterCall(address)

SpecNodes == InitNodes /\ [][NextNodes]_vars

----------------------------------------------------------------------------
(* SpecResolve: register_node and resolve_conflicts (lines 152-182) with up *)
(* to three peers; arg keeps the order in which the peers were scanned and  *)
(* what each answered                                                       *)

PeerAddresses ==
    {Address("http", "h1:5000", ""), Address("http", "h2:5000", ""),
     Address("http", "h3:5000", "")}

\* a peer is unreachable, or answers with its chain and the length of it
PeerAnswers ==
    {Unreachable,
     Response("ok", 200, 2, <<PeerGenesis, Peer2>>),
     Response("ok", 200, 2, <<PeerGenesis, Peer2Fork>>),
     Response("ok", 200, 3, <<PeerGenesis, Peer2, Peer3>>)}

Scanned(order, resp) == [order |-> order, resp |-> resp]

ResolveAll(order, resp) ==
    LET st == ScanAll(Scan(Len(chain), <<>>, FALSE), order, resp)
    IN /\ arg' = Scanned(order, resp)
       /\ IF st.raised
          THEN /\ UNCHANGED <<chain, current_transactions, lists, loc, replaced, queued>>
               /\ ret' = Ret("resolve_conflicts", 0, NoBlock, FALSE, TRUE)
          ELSE /\ Replace(st.new_chain, loc)
               /\ ret' = Ret("resolve_conflicts", 0, NoBlock, st.new_chain # <<>>, FALSE)
       /\ UNCHANGED <<nodes, clock, pc, served>>

NextResolve ==
    \/ \E address \in PeerAddresses : RegisterNode(address)
    \/ \E order \in Orders(nodes), resp \in [nodes -> PeerAnswers] : ResolveAll(order, resp)

SpecResolve == Init /\ [][NextResolve]_vars

----------------------------------------------------------------------------
(* SpecPure: calls of the functions that read no ledger state, valid_chain  *)
(* (lines 123-150) and proof_of_work (lines 86-98), each on one input drawn *)
(* at the start                                                             *)

\* chains a node running this code produces
ValidChains ==
    {<<PeerGenesis>>,
     <<PeerGenesis, Peer2>>,
     <<PeerGenesis, Peer2Fork>>,
     <<PeerGenesis, Peer2, Peer3>>}

\* the proofs ZeroPrefixGuesses covers
TabulatedProofs == 0..100

\* values a corrupted previous_hash takes
CorruptHashes == {<<0>>, <<1>>, <<2>>}

\* chain o with the previous_hash, or the proof, of its block i replaced
WithPreviousHash(o, i, h) == [o EXCEPT ![i].previous_hash = h]

WithProof(o, i, p) == [o EXCEPT ![i].proof = p]

\* an argument of valid_chain: the chain, and the chain it was formed from
Candidate(c, o) == [fn |-> "valid_chain", chain |-> c, of |-> o]

\* the chains formed from o by corrupting block i
HashCorrupted(o, i) ==
    {WithPreviousHash(o, i, h) : h \in CorruptHashes \ {o[i].previous_hash}}

ProofCorrupted(o, i) ==
    {WithProof(o, i, p) : p \in TabulatedProofs \ {o[i].proof}}

CorruptedFrom(o) ==
    UNION {HashCorrupted(o, i) \cup ProofCorrupted(o, i) : i \in 1..Len(o)}

\* of is empty for a chain that was formed from no valid chain
Candidates ==
    {Candidate(c, <<>>) : c \in PeerChains \ ValidChains}
      \cup {Candidate(o, o) : o \in ValidChains}
      \cup UNION {{Candidate(c, o) : c \in CorruptedFrom(o)} : o \in ValidChains}

\* what a pure call returned
Value(fn, value, raised) == [op |-> fn, value |-> value, raised |-> raised]

\* an argument of proof_of_work
Search(last_proof) == [fn |-> "proof_of_work", last_proof |-> last_proof]

PureInputs == Candidates \cup {Search(last_proof) : last_proof \in SearchInputs}

InitPure ==
    /\ chain = <<Genesis>>
    /\ lists = <<(<<>>), (<<>>)>>
    /\ current_transactions = 2
    /\ nodes = {}
    /\ clock = 0
    /\ ret = Ret("init", 0, NoBlock, FALSE, FALSE)
    /\ arg \in PureInputs
    /\ pc = [t \in Threads |-> "idle"]
    /\ served = 0
    /\ loc = [t \in Threads |-> IdleLocals]
    /\ queued = EmptyBag
    /\ replaced = FALSE

\* valid_chain(arg.chain), lines 123-150
ValidChain ==
    /\ ret.op = "init"
    /\ arg.fn = "valid_chain"
    /\ ret' = IF ValidChainRaises(arg.chain)
              THEN Value("valid_chain", FALSE, TRUE)
              ELSE Value("valid_chain", valid_chain(arg.chain), FALSE)
    /\ UNCHANGED <<chain, current_transactions, lists, nodes, clock, arg, pc, loc,
                   served, queued, replaced>>

\* proof_of_work(arg.last_proof), lines 86-98; the call returns when the
\* search ends
ProofOfWork ==
    /\ ret.op = "init"
    /\ arg.fn = "proof_of_work"
    /\ proof_of_work(arg.last_proof) # NoProof
    /\ ret' = Value("proof_of_work", proof_of_work(arg.last_proof), FALSE)
    /\ UNCHANGED <<chain, current_transactions, lists, nodes, clock, arg, pc, loc,
                   served, queued, replaced>>

NextPure ==
    \/ ValidChain
    \/ ProofOfWork

SpecPure == InitPure /\ [][NextPure]_vars

----------------------------------------------------------------------------
(* Properties *)

RECURSIVE BagOfSeq(_)
BagOfSeq(s) == IF s = <<>> THEN EmptyBag ELSE SetToBag({Head(s)}) (+) BagOfSeq(Tail(s))

RECURSIVE BagOfBlocks(_)
BagOfBlocks(c) ==
    IF c = <<>> THEN EmptyBag ELSE BagOfSeq(Head(c).transactions) (+) BagOfBlocks(Tail(c))

\* the transactions of a list that are not rewards
NonReward(s) == SelectSeq(s, LAMBDA tx : tx.sender # "0")

\* a step of Spec that is a call of resolve_conflicts
ResolveStep == ret'.op = "resolve_conflicts" /\ nodes' = nodes

\* a step of SpecLedger that is a call of new_block
NewBlockStep == ret'.op = "new_block" /\ Len(chain') = Len(chain) + 1

\* a step of Spec that is a call of new_transaction
NewTransactionStep == ret'.op = "new_transaction" /\ Pending' = Pending + 1

\* a step of SpecConc in which resolve_conflicts replaces the chain
ReplaceStep ==
    \E t \in Threads :
        pc[t] = "r_fetch" /\ pc'[t] = "idle" /\ loc[t].new_chain # <<>> /\ replaced'

(* C1: whenever resolve_conflicts replaces the local chain, the adopted     *)
(* chain has strictly more blocks than the local chain had when the         *)
(* resolution started (never an equal number), and it passes valid_chain.   *)
C1_StrictlyLonger ==
    [][(ResolveStep /\ ret'.replaced) =>
          (Len(chain') > Len(chain) /\ (valid_chain(WireChain(chain)))')]_vars

(* C2: in every state reachable through the requests (transaction, mine,    *)
(* register, resolve), under any interleaving, the local chain is valid:    *)
(* each block after the first has the digest of its predecessor as          *)
(* previous_hash and a proof that valid_proof accepts.                      *)
C2_ChainValid == valid_chain(WireChain(chain))

(* C3 as claimed: new_block(proof, previous_hash) appends a block with      *)
(* index len(chain)+1, the whole pending pool in order, and the proof and   *)
(* previous_hash it was given; the pool is empty afterwards, the chain is   *)
(* the old chain plus that block, and the block is returned.                *)
C3_GivenValues ==
    [][NewBlockStep =>
          LET block == Last(chain')
          IN /\ block.index = Len(chain) + 1
             /\ lists'[block.transactions] = lists[current_transactions]
             /\ block.proof = arg'.proof
             /\ block.previous_hash = arg'.previous_hash
             /\ lists'[current_transactions'] = <<>>
             /\ [i \in 1..Len(chain) |-> (WireChain(chain))'[i]] = WireChain(chain)
             /\ ret'.block = (Wire(last_block))']_vars

(* C3 amended: the same, except that the block's previous_hash is the given *)
(* value only when one is given (a truthy value); with None (or any falsy   *)
(* value) it is the digest of the block that was last before the call.      *)
C3_GivenOrDigest ==
    [][NewBlockStep =>
          LET block == Last(chain')
          IN /\ block.index = Len(chain) + 1
             /\ lists'[block.transactions] = lists[current_transactions]
             /\ block.proof = arg'.proof
             /\ block.previous_hash =
                   IF arg'.previous_hash # None THEN arg'.previous_hash
                   ELSE hash(Wire(last_block))
             /\ lists'[current_transactions'] = <<>>
             /\ [i \in 1..Len(chain) |-> (WireChain(chain))'[i]] = WireChain(chain)
             /\ ret'.block = (Wire(last_block))']_vars

\* new_block was called without previous_hash on a pool of two different
\* transactions, and returned the block holding them in order
C3_Witness ==
    /\ ret.op = "new_block"
    /\ arg.previous_hash = None
    /\ ret.block.transactions = <<Tx("A", "B", 5), Tx("A", "B", 6)>>
    /\ ret.block = Wire(last_block)
    /\ Pending = 0

(* C4: over any sequence of new_transaction and new_block calls, the        *)
(* transactions pending when a block is minted are exactly the block's      *)
(* transactions, and every accepted transaction is, as many times as it was *)
(* accepted, in exactly one place: a block of the chain or the pending      *)
(* pool (never in two blocks, never in a block and the pool).               *)
C4_EmbeddedOnce ==
    /\ [](BagOfBlocks(WireChain(chain)) (+) BagOfSeq(lists[current_transactions]) = queued)
    /\ [][NewBlockStep =>
             lists'[Last(chain').transactions] = lists[current_transactions]]_vars

\* two blocks were minted, each with the transaction {A, B, 5} that was
\* accepted three times; the third one is pending
C4_Witness ==
    /\ Len(chain) = 3
    /\ \A i \in 2..3 : Tx("A", "B", 5) \in {lists[chain[i].transactions][k] :
                                             k \in 1..Len(lists[chain[i].transactions])}
    /\ lists[current_transactions] = <<Tx("A", "B", 5)>>
    /\ CopiesIn(Tx("A", "B", 5), queued) = 3

(* C5: a fetch error for one peer (unreachable, request fails) is           *)
(* swallowed: the resolution still completes with true or false.  (The      *)
(* bodies received carry no empty chain, so that nothing else raises.)      *)
C5_FetchErrorSwallowed ==
    (ret.op = "resolve_conflicts" /\ arg.error /\ ~arg.empty) => ~ret.raised

(* C6: resolve_conflicts returns true and the local chain becomes a valid   *)
(* peer chain of the greatest length exceeding the local length if a        *)
(* responding peer offers such a chain; otherwise it returns false and the  *)
(* chain is what it was.  Never true with the chain unchanged, never false  *)
(* with the chain changed.                                                  *)
C6_LongestQualifying ==
    [][ResolveStep =>
          /\ ~ret'.raised
          /\ IF arg'.best > 0
             THEN ret'.replaced /\ Len(chain') = arg'.best
                  /\ (valid_chain(WireChain(chain)))'
             ELSE ~ret'.replaced
          /\ ret'.replaced => (WireChain(chain))' # WireChain(chain)
          /\ ~ret'.replaced => (WireChain(chain))' = WireChain(chain)]_vars

(* C7: once a block is in the local chain, its index, transactions, proof   *)
(* and previous_hash never change, under any interleaving of requests; in   *)
(* particular a transaction queued concurrently with minting is never added *)
(* to the list of a block that is in the chain.  (A step that replaces the  *)
(* whole chain puts other blocks there.)                                    *)
C7_BlocksImmutable ==
    [][~ReplaceStep =>
          \A i \in 1..Len(chain) :
              /\ i <= Len(chain')
              /\ (WireChain(chain))'[i] = Wire(chain[i])]_vars

(* C8: with T1 and T2 pending when a mine request begins and T3 queued      *)
(* after it began but before it appends its block, the minted block holds   *)
(* exactly T1 and T2 (beside the reward).                                   *)
C8_PoolAtomic ==
    [][\A t \in Threads :
          (pc[t] = "nb_append" /\ pc'[t] = "idle" /\ Len(NonReward(loc[t].seen)) = 2) =>
             NonReward(lists[loc[t].block.transactions]) = NonReward(loc[t].seen)]_vars

(* C9: in every reachable state the block at position i of the local chain  *)
(* (counting from 1) has index i.                                           *)
C9_IndexIsPosition == \A i \in 1..Len(chain) : chain[i].index = i

(* C10: new_transaction appends exactly the given transaction to the end of *)
(* the pending pool, leaves the chain unchanged and returns the chain       *)
(* length + 1, in every reachable state, also after a resolution replaced   *)
(* the chain; a mine request that follows next mints the block with that    *)
(* index, holding the transaction.                                          *)
C10_NextBlockIndex ==
    [][/\ NewTransactionStep =>
             /\ lists'[current_transactions'] = Append(lists[current_transactions], arg')
             /\ (WireChain(chain))' = WireChain(chain)
             /\ ret'.index = Len(chain) + 1
       /\ (ret.op = "new_transaction" /\ ret'.op = "mine") =>
             /\ ret'.block.index = ret.index
             /\ \E k \in 1..Len(ret'.block.transactions) : ret'.block.transactions[k] = arg]_vars

\* the candidate is the valid chain it was formed from with the
\* previous_hash, or the proof, of exactly one block replaced
CorruptedOnce(in) == in.chain \in CorruptedFrom(in.of)

(* C11: valid_chain returns true for every valid chain, and false for every *)
(* chain formed from a valid chain by corrupting the previous_hash or the   *)
(* proof of exactly one block, at every position (first and last included)  *)
(* and for every length from 1.                                             *)
C11_CorruptionDetected ==
    (ret.op = "valid_chain" /\ Len(arg.chain) >= 1) =>
        /\ ~ret.raised
        /\ arg.chain = arg.of => ret.value
        /\ CorruptedOnce(arg) => ~ret.value

\* block i of c carries the digest of the block before it and a proof whose
\* guess text, with that block's proof, has a digest with the zero prefix
Linked(c, i) ==
    /\ c[i].previous_hash = hash(c[i - 1])
    /\ Guess(c[i - 1].proof, c[i].proof) \in ZeroPrefixGuesses

(* C12: valid_chain(chain) returns true exactly when every block from the   *)
(* second on has the digest of its predecessor as previous_hash and a proof *)
(* that valid_proof accepts after the predecessor's; it returns true for a  *)
(* chain of one block; the call changes neither the candidate, nor the      *)
(* local chain, nor the pending pool, nor the peer set.                     *)
C12_ValidExactly ==
    /\ []((ret.op = "valid_chain" /\ Len(arg.chain) >= 1) =>
             /\ ~ret.raised
             /\ ret.value = (\A i \in 2..Len(arg.chain) : Linked(arg.chain, i))
             /\ Len(arg.chain) = 1 => ret.value)
    /\ [][ret'.op = "valid_chain" =>
             /\ arg' = arg
             /\ (WireChain(chain))' = WireChain(chain)
             /\ lists'[current_transactions'] = lists[current_transactions]
             /\ nodes' = nodes]_vars

\* valid_chain returned false for the three-block chain whose last block
\* has a proof that valid_proof rejects, its links being right
C12_Witness ==
    /\ ret.op = "valid_chain"
    /\ arg.chain = WithProof(<<PeerGenesis, Peer2, Peer3>>, 3, 0)
    /\ ~ret.value

\* a step of Spec that is a call of resolve_conflicts and changes the state
\* (a call of register_node changes nothing but the peer set)
ResolveCall ==
    /\ ret'.op = "resolve_conflicts"
    /\ <<ret, arg, chain, lists, current_transactions>>' #
          <<ret, arg, chain, lists, current_transactions>>

(* C13: resolve_conflicts leaves the pending pool as it was (the same       *)
(* transactions in the same order), whether or not it replaces the chain,   *)
(* and leaves the peer set unchanged.                                       *)
C13_PoolAndPeersKept ==
    [][ResolveCall =>
          /\ lists'[current_transactions'] = lists[current_transactions]
          /\ nodes' = nodes]_vars

\* a resolution replaced the chain while a transaction was pending, with
\* two peers registered
C13_Witness ==
    /\ ret.op = "resolve_conflicts"
    /\ ret.replaced
    /\ lists[current_transactions] = <<Tx("A", "B", 5)>>
    /\ Cardinality(nodes) = 2

(* C14: no reader and no operation running at the same time observes a      *)
(* mutation half applied: in no reachable state has minting cleared the     *)
(* pending pool while the minted block is not yet in the chain, so that     *)
(* every accepted transaction is at all times in the pending pool or in a   *)
(* block of the chain (as long as the chain was not replaced).              *)
C14_NoHalfApplied ==
    ~replaced =>
        BagOfBlocks(WireChain(chain)) (+) BagOfSeq(lists[current_transactions]) = queued

\* the text of last_proof followed by proof has a digest with the zero prefix
Accepted(last_proof, proof) == Guess(last_proof, proof) \in ZeroPrefixGuesses

(* C15: for every previous proof p that has a valid candidate,              *)
(* proof_of_work(p) ends and returns the smallest non-negative integer c    *)
(* that valid_proof(p, c) accepts (no smaller k is accepted); the search    *)
(* changes neither the chain, nor the pending pool, nor the peer set.       *)
C15_SmallestProof ==
    /\ []((ret.op = "init" /\ arg # None /\ arg.fn = "proof_of_work"
              /\ \E k \in TabulatedProofs : Accepted(arg.last_proof, k)) =>
             ENABLED ProofOfWork)
    /\ [](ret.op = "proof_of_work" =>
             /\ ret.value \in Nat
             /\ Accepted(arg.last_proof, ret.value)
             /\ \A k \in 0..(ret.value - 1) : ~Accepted(arg.last_proof, k))
    /\ [][ret'.op = "proof_of_work" =>
             /\ (WireChain(chain))' = WireChain(chain)
             /\ lists'[current_transactions'] = lists[current_transactions]
             /\ nodes' = nodes]_vars

\* proof_of_work returned 0 after the previous proof 29
C15_Witness ==
    /\ ret.op = "proof_of_work"
    /\ arg.last_proof = 29
    /\ ret.value = 0

\* the ledger as constructed: no call has returned a value yet
Fresh == ret.op = "init"

\* one mine request after {A, B, 5} was queued on the fresh ledger: the
\* chain was not replaced, and nothing else was accepted
ScenarioMined ==
    /\ ret.op = "mine"
    /\ ~replaced
    /\ Len(chain) = 2
    /\ queued = SetToBag({Tx("A", "B", 5)}) (+) SetToBag({RewardTx})

\* the ledger is constructed with one block of index 1, proof 100 and the
\* sentinel previous_hash, and an empty pool
FreshLedger ==
    Fresh =>
        /\ Len(chain) = 1
        /\ chain[1].index = 1
        /\ chain[1].proof = GenesisProof
        /\ chain[1].previous_hash = GenesisPreviousHash
        /\ Wire(chain[1]).transactions = <<>>
        /\ lists[current_transactions] = <<>>

(* C16 as claimed: on a freshly constructed ledger (one genesis block of    *)
(* index 1, proof 100, the sentinel previous_hash; empty pool), queueing    *)
(* {A, B, 5} and mining one block gives a chain of length 2 whose block 2   *)
(* has the transactions [{A, B, 5}] exactly and the digest of the genesis   *)
(* block as previous_hash.                                                  *)
C16_ScenarioExact ==
    /\ FreshLedger
    /\ ScenarioMined =>
          /\ Wire(chain[2]).transactions = <<Tx("A", "B", 5)>>
          /\ chain[2].previous_hash = hash(Wire(chain[1]))

(* C16 amended: the same, except that block 2 holds {A, B, 5} followed by   *)
(* the reward transaction (sender "0", recipient the node identifier,       *)
(* amount 1) that the mine request queues before it mints.                  *)
C16_ScenarioWithReward ==
    /\ FreshLedger
    /\ ScenarioMined =>
          /\ Wire(chain[2]).transactions = <<Tx("A", "B", 5), RewardTx>>
          /\ chain[2].index = 2
          /\ chain[2].previous_hash = hash(Wire(chain[1]))
          /\ Wire(chain[1]) = Wire(Genesis)

\* the scenario was run: the mine request returned block 2
C16_Witness ==
    /\ ScenarioMined
    /\ ret.block = Wire(chain[2])
    /\ lists[current_transactions] = <<>>

\* the addresses given to register_node so far
Registered == {arg[k] : k \in 1..Len(arg)}

(* C17: register_node is idempotent and independent of the order:           *)
(* registering an address that is registered already leaves the peer set    *)
(* unchanged; after any sequence of registrations the peer set holds the    *)
(* host:port location of each address once, however often and in whatever   *)
(* order the addresses were given; the call changes neither the chain nor   *)
(* the pending pool.                                                        *)
C17_RegisterIdempotent ==
    /\ [](nodes = {urlparse_netloc(address) : address \in Registered})
    /\ [](Cardinality(nodes) <= Cardinality(Registered))
    /\ [][/\ Last(arg') \in Registered => nodes' = nodes
          /\ (WireChain(chain))' = WireChain(chain)
          /\ lists'[current_transactions'] = lists[current_transactions]]_vars

\* three registrations, two of them of the same location, in an order that
\* puts another one in between: two peers
C17_Witness ==
    /\ arg = <<Address("http", "h1:5000", ""), Address("http", "h2:5000", ""),
               Address("http", "h1:5000", "/chain")>>
    /\ nodes = {"h1:5000", "h2:5000"}
    /\ lists[current_transactions] = <<Tx("A", "B", 5)>>

(* C18: the local chain is never empty: in every state reachable after      *)
(* construction, by any sequence of requests, also resolutions against      *)
(* peers that answer with an empty chain or a chain whose length field is   *)
(* wrong, the chain has at least one block, so that last_block finds one.   *)
C18_NeverEmpty == Len(chain) >= 1 /\ last_block = chain[Len(chain)]

\* a peer answered with an empty chain and a length field greater than the
\* local length: the resolution ended in the IndexError of valid_chain
C18_Witness ==
    /\ ret.op = "resolve_conflicts"
    /\ arg.empty
    /\ ~arg.error
    /\ ret.raised
    /\ Len(chain) = 2

\* a step of SpecConc in which a mine request appends its block
MintStep(t) == pc[t] = "nb_append" /\ pc'[t] = "idle" /\ Len(chain') = Len(chain) + 1

(* C19: every block minted through the mine endpoint holds exactly one      *)
(* reward transaction (sender "0", recipient the node identifier, amount    *)
(* 1), as the last of its transactions, also when several mine and          *)
(* transaction requests are in flight at the same time.                     *)
C19_OneRewardLast ==
    [][\A t \in Threads :
          MintStep(t) =>
             LET txs == lists'[Last(chain').transactions]
             IN /\ Len(txs) >= 1
                /\ Last(txs) = RewardTx
                /\ Len(NonReward(txs)) = Len(txs) - 1]_vars

\* the peers that answered a resolution, started on chain c, with a valid
\* chain and a length greater than the local length
Offers(in, c) ==
    {n \in DOMAIN in.resp :
        /\ in.resp[n].kind = "ok"
        /\ in.resp[n].status_code = 200
        /\ in.resp[n].length > Len(c)
        /\ ~ValidChainRaises(in.resp[n].chain)
        /\ valid_chain(in.resp[n].chain)}

\* those of them whose length is the greatest
Ties(in, c) ==
    {n \in Offers(in, c) : \A m \in Offers(in, c) : in.resp[m].length <= in.resp[n].length}

\* the one scanned first
FirstOf(in, S) ==
    CHOOSE n \in S :
        \A m \in S : \E k, l \in DOMAIN in.order :
            in.order[k] = n /\ in.order[l] = m /\ k <= l

\* a step of SpecResolve that is a call of resolve_conflicts and changes the
\* state (a call of register_node changes nothing but the peer set)
ScanCall ==
    /\ ret'.op = "resolve_conflicts"
    /\ <<ret, arg, chain, lists>>' # <<ret, arg, chain, lists>>

(* C20: when two or more responding peers offer valid chains of the same    *)
(* greatest reported length, greater than the local length, the resolution  *)
(* adopts the chain of the one scanned first among them; one scanned later  *)
(* with an equal length does not displace it.                               *)
C20_FirstOfEqualKept ==
    [][(ScanCall /\ Cardinality(Ties(arg', chain)) >= 2) =>
          /\ ret'.replaced
          /\ (WireChain(chain))' = arg'.resp[FirstOf(arg', Ties(arg', chain))].chain]_vars

====
